---- MODULE Spec2Model ----
(***************************************************************************)
(* Model of nat-test (src/main.go): main runs testUDP and then testTCP.    *)
(* Each run builds one STUN binding request, walks its configured list of  *)
(* STUN servers, performs one request/response exchange per server and     *)
(* hands the collected STUNResponse records to logSTUNResults.             *)
(*                                                                         *)
(* The network, the resolver and the STUN codec are the environment: every *)
(* call into them is a nondeterministic choice over the results the call   *)
(* can return.  Time is a counter of ticks; a call that goes to the        *)
(* network takes at least one tick.                                        *)
(***************************************************************************)
EXTENDS Integers, Sequences, FiniteSets, TLC

VARIABLES
    timeout,                  \* the timeout argument of testUDP / testTCP
    stunServerURLsToTestUDP,  \* configured UDP server list
    stunServerURLsToTestTCP,  \* configured TCP server list
    pc,                       \* position of the single thread of control
    now,                      \* the clock, in ticks
    udpConn,                  \* the UDP socket of testUDP
    tcpConns,                 \* every TCP connection testTCP dialed, in dial order
    bindRequest,              \* the binding request of the current run
    bindRequestRaw,           \* its serialized form
    idx,                      \* position of the range loop in the server list
    stunResponses,            \* the current run's slice of STUNResponse records
    bindStart,                \* time.Now() taken just before the send
    rawResponse,              \* what the last read put in the buffer
    response,                 \* the decoded stun.Message
    bindResponseAddr,         \* the extracted XORMappedAddress
    sent,                     \* the bytes each send put on the network
    log,                      \* every message given to the logger
    sink,                     \* every batch handed to logSTUNResults
    errUDP,                   \* what testUDP returned
    errTCP                    \* what testTCP returned

vars == <<timeout, stunServerURLsToTestUDP, stunServerURLsToTestTCP, pc, now,
          udpConn, tcpConns, bindRequest, bindRequestRaw, idx, stunResponses,
          bindStart, rawResponse, response, bindResponseAddr, sent, log, sink,
          errUDP, errTCP>>

(***************************************************************************)
(* Bounds of the model and constants of the program.                      *)
(***************************************************************************)
\* Largest total number of configured endpoints (UDP list plus TCP list).
MaxServers == 2

\* Longest time, in ticks, a reply that does arrive takes to arrive.
MaxDelay == 1

\* timeout := 10 * time.Second, in ticks.
MainTimeout == 10

\* The timeout arguments the runs are checked with: disabled, and main's.
Timeouts == {0, MainTimeout}

\* The servers named by the configuration, UDP list order.
ServerPoolUDP ==
    <<"stun.l.google.com:3478", "stun.l.google.com:19302",
      "stun.sipgate.net:3478", "stun.sipgate.net:3479",
      "global.stun.twilio.com:3478", "turn.viam.com:443">>

\* The servers a TCP list is drawn from: the configured one first.
ServerPoolTCP ==
    <<"turn.viam.com:443", "global.stun.twilio.com:3478",
      "stun.sipgate.net:3479", "stun.sipgate.net:3478",
      "stun.l.google.com:19302", "stun.l.google.com:3478">>

\* Transaction IDs stun.TransactionID can draw (96 random bits in the code).
TxIDs == {"tx1", "tx2"}

\* stun.MessageClass
Classes == {"Request", "Indication", "SuccessResponse", "ErrorResponse"}

\* Addresses a server can report in XOR-MAPPED-ADDRESS.
MappedAddrs == {"203.0.113.5:54321", "198.51.100.7:40000"}

NoAttr == "no XOR-MAPPED-ADDRESS"

\* A sender on the network that is none of the configured servers.
Stranger == "stranger"

None == "none"

(***************************************************************************)
(* STUNResponse records.                                                   *)
(***************************************************************************)
\* NewSTUNResponse(url): a record with only the queried endpoint set.
NewSTUNResponse(url) ==
    [STUNServerURL |-> url, STUNServerAddr |-> "", BindResponseAddr |-> "",
     TimeToBindResponse |-> 0]

\* net.ResolveUDPAddr / net.ResolveTCPAddr followed by String(): the numeric
\* address the endpoint resolves to.
ResolvedString(network, url) ==
    CASE url = "stun.l.google.com:3478" -> "192.0.2.1:3478"
      [] url = "stun.l.google.com:19302" -> "192.0.2.1:19302"
      [] url = "stun.sipgate.net:3478" -> "192.0.2.2:3478"
      [] url = "stun.sipgate.net:3479" -> "192.0.2.2:3479"
      [] url = "global.stun.twilio.com:3478" -> "192.0.2.3:3478"
      [] url = "turn.viam.com:443" -> "192.0.2.4:443"

\* Faulty variant of AppendResponse: assigns the slice instead of appending.
AppendResponse_Overwrite(rs, url) == <<NewSTUNResponse(url)>>

\* stunResponse := NewSTUNResponse(stunServerURLToTest)
\* stunResponses = append(stunResponses, stunResponse)
AppendResponse(rs, url) == Append(rs, NewSTUNResponse(url))

\* stunResponse is a pointer to the record appended last.
SetLast(rs, field, v) == [rs EXCEPT ![Len(rs)][field] = v]

\* stunResponse.STUNServerAddr = addr.String()
SetServerAddr(rs, a) == SetLast(rs, "STUNServerAddr", a)

\* stunResponse.BindResponseAddr = bindResponseAddr.String()
SetBindResponseAddr(rs, addr) == SetLast(rs, "BindResponseAddr", addr)

\* Faulty variant of SetTimeToBindResponse: the duration is never assigned.
SetTimeToBindResponse_Skipped(rs, start, t) == rs

\* stunResponse.TimeToBindResponse = time.Since(bindStart)
SetTimeToBindResponse(rs, start, t) == SetLast(rs, "TimeToBindResponse", t - start)

(***************************************************************************)
(* The STUN codec.                                                         *)
(***************************************************************************)
\* stun.Build(stun.TransactionID, stun.BindingRequest)
Build(tid) == [Method |-> "Binding", Class |-> "Request", TransactionID |-> tid]

\* var bindRequest *stun.Message before stun.Build has run.
NoRequest == [Method |-> None, Class |-> None, TransactionID |-> None]

\* rawResponse before a read has filled it.
NoBytes == [src |-> None, stun |-> FALSE, class |-> None, tid |-> None, xor |-> NoAttr]

\* response before stun.Decode has filled it.
NoMessage == [Class |-> None, TransactionID |-> None, xor |-> NoAttr, src |-> None]

\* Message.MarshalBinary: the header fields in wire order.
MarshalBinary(m) == <<m.Method, m.Class, m.TransactionID>>

\* What a read can put in the buffer: bytes that are no STUN message, or a
\* STUN message of any class, with any transaction ID, with or without the
\* XOR-MAPPED-ADDRESS attribute.
Datagrams(senders) ==
    [src : senders, stun : {FALSE}, class : {None}, tid : {None}, xor : {NoAttr}]
    \cup
    [src : senders, stun : {TRUE}, class : Classes, tid : TxIDs,
     xor : MappedAddrs \cup {NoAttr}]

\* stun.Decode: fails on bytes that are no STUN message.
DecodeOK(raw) == raw.stun

Decode(raw) ==
    [Class |-> raw.class, TransactionID |-> raw.tid, xor |-> raw.xor, src |-> raw.src]

\* XORMappedAddress.GetFrom: fails when the attribute is missing.
GetFromOK(m) == m.xor # NoAttr

GetFrom(m) == m.xor

(***************************************************************************)
(* Logging.                                                                *)
(***************************************************************************)
\* One message on the sublogger of a run, tagged with the server it is about.
Logged(l, logger, url, msg, fields) ==
    Append(l, [logger |-> logger, stun_server_url |-> url, msg |-> msg,
               fields |-> fields])

\* hex.EncodeToString(id[:])
EncodeToString(tid) == <<"hex", tid>>

(***************************************************************************)
(* Sending.                                                                *)
(***************************************************************************)
\* Faulty variant of Transmit: the servers after the first get a request
\* with a transaction ID of their own.
Transmit_FreshID(s, t, i, url, bytes) ==
    IF bytes = <<>>
    THEN s
    ELSE Append(s, [transport |-> t, iter |-> i, to |-> url,
                    raw |-> IF i > 1 /\ Len(bytes) = 3
                            THEN [bytes EXCEPT ![3] = "fresh"]
                            ELSE bytes])

\* conn.WriteTo(bindRequestRaw, udpAddr) / conn.Write(bindRequestRaw): the
\* bytes the call wrote are on the network, on their way to url.
Transmit(s, t, i, url, bytes) ==
    IF bytes = <<>>
    THEN s
    ELSE Append(s, [transport |-> t, iter |-> i, to |-> url, raw |-> bytes])

\* Faulty variant of ShortWrite: the byte count is not looked at.
ShortWrite_Ignored(n, raw) == FALSE

\* if n != len(bindRequestRaw)
ShortWrite(n, raw) == n # Len(raw)

(***************************************************************************)
(* Deadlines.  A session carries "armed" and, when armed, the absolute     *)
(* time "deadline".                                                        *)
(***************************************************************************)
\* Faulty variant of ArmsDeadline: no deadline is ever armed.
ArmsDeadline_Never(to) == FALSE

\* Faulty variant of ArmsDeadline: arms a deadline for timeout = 0 as well.
ArmsDeadline_Always(to) == to >= 0

\* if timeout > 0 { ... }: the guard of both deadline setups.
ArmsDeadline(to) == to > 0

\* How long a name lookup of net.ResolveUDPAddr / net.ResolveTCPAddr can
\* take: an answer (or failure) at once, or one slower than main's timeout.
\* The resolver runs under its own timeouts, not under a session's deadline.
ResolveTimes == {1, MainTimeout + 1}

\* I/O on a session whose deadline has passed fails instead of blocking.
DeadlinePassed(armed, deadline, t) == armed /\ t >= deadline

\* A reply arriving d ticks from now is read only if that is before the deadline.
ArrivesInTime(armed, deadline, t, d) == ~armed \/ t + d < deadline

(***************************************************************************)
(* Initial state: a configuration and a timeout.                           *)
(***************************************************************************)
Init ==
    /\ timeout \in Timeouts
    /\ \E nu \in 0..MaxServers : \E nt \in 0..(MaxServers - nu) :
          /\ stunServerURLsToTestUDP = SubSeq(ServerPoolUDP, 1, nu)
          /\ stunServerURLsToTestTCP = SubSeq(ServerPoolTCP, 1, nt)
    /\ pc = "udp_listen"
    /\ now = 0
    /\ udpConn = [state |-> "none", armed |-> FALSE, deadline |-> 0, closes |-> 0]
    /\ tcpConns = <<>>
    /\ bindRequest = NoRequest
    /\ bindRequestRaw = <<>>
    /\ idx = 0
    /\ stunResponses = <<>>
    /\ bindStart = 0
    /\ rawResponse = NoBytes
    /\ response = NoMessage
    /\ bindResponseAddr = None
    /\ sent = <<>>
    /\ log = <<>>
    /\ sink = <<>>
    /\ errUDP = None
    /\ errTCP = None

Config == <<timeout, stunServerURLsToTestUDP, stunServerURLsToTestTCP>>

\* The locals of one loop iteration.
Locals == <<rawResponse, response, bindResponseAddr>>

\* Faulty variant of MoreServers: the loop stops one element early.
MoreServers_OffByOne(i, list) == i < Len(list) - 1

\* for _, stunServerURLToTest := range list: is there a next element?
MoreServers(i, list) == i < Len(list)

(***************************************************************************)
(* testUDP                                                                 *)
(***************************************************************************)
\* The deferred conn.Close() of testUDP.
CloseUDP(c) == [c EXCEPT !.state = "closed", !.closes = @ + 1]

\* return err / return nil of testUDP after the socket is open: the deferred
\* close runs, control is back in main.
UDPReturn(e) ==
    /\ errUDP' = e
    /\ udpConn' = CloseUDP(udpConn)
    /\ pc' = "main_after_udp"

\* continue: the loop advances.
UDPContinue == pc' = "udp_range"

\* logger.WithFields("stun_server_url", stunServerURLToTest).Error...(msg, ...)
\* followed by continue.
UDPFail(msg, fields) ==
    /\ log' = Logged(log, "udp", stunServerURLsToTestUDP[idx], msg, fields)
    /\ UDPContinue

\* conn, err := net.ListenPacket("udp", "0.0.0.0:0")
UDPListenPacket ==
    /\ pc = "udp_listen"
    /\ \/ /\ udpConn' = [udpConn EXCEPT !.state = "open"]
          /\ pc' = "udp_setdeadline"
          /\ UNCHANGED <<errUDP, log>>
       \/ /\ log' = Logged(log, "udp", None,
                "Failed to listen over UDP on a port; UDP traffic may be blocked", <<>>)
          /\ errUDP' = "error"
          /\ pc' = "main_after_udp"
          /\ UNCHANGED udpConn
    /\ UNCHANGED <<Config, now, tcpConns, bindRequest, bindRequestRaw, idx,
                   stunResponses, bindStart, Locals, sent, sink, errTCP>>

\* if timeout > 0 { if err := conn.SetDeadline(time.Now().Add(timeout)); err != nil { return err } }
UDPSetDeadline ==
    /\ pc = "udp_setdeadline"
    /\ IF ArmsDeadline(timeout)
       THEN \/ /\ udpConn' = [udpConn EXCEPT !.armed = TRUE, !.deadline = now + timeout]
               /\ pc' = "udp_build"
               /\ UNCHANGED errUDP
            \/ UDPReturn("error")
       ELSE /\ pc' = "udp_build"
            /\ UNCHANGED <<udpConn, errUDP>>
    /\ UNCHANGED <<Config, now, tcpConns, bindRequest, bindRequestRaw, idx,
                   stunResponses, bindStart, Locals, sent, log, sink, errTCP>>

\* bindRequest, err := stun.Build(...); bindRequestRaw, err := MarshalBinary();
\* either can fail, and then the run returns the error.
UDPBuild ==
    /\ pc = "udp_build"
    /\ \/ /\ \E tid \in TxIDs :
                /\ bindRequest' = Build(tid)
                /\ bindRequestRaw' = MarshalBinary(Build(tid))
          /\ pc' = "udp_range"
          /\ UNCHANGED <<errUDP, udpConn>>
       \/ /\ UDPReturn("error")
          /\ UNCHANGED <<bindRequest, bindRequestRaw>>
    /\ UNCHANGED <<Config, now, tcpConns, idx, stunResponses, bindStart,
                   Locals, sent, log, sink, errTCP>>

\* for _, stunServerURLToTest := range stunServerURLsToTestUDP {
\*     stunResponse := NewSTUNResponse(stunServerURLToTest)
\*     stunResponses = append(stunResponses, stunResponse)
\* Each iteration has its own locals; after the last one the loop is left.
UDPRange ==
    /\ pc = "udp_range"
    /\ IF MoreServers(idx, stunServerURLsToTestUDP)
       THEN /\ idx' = idx + 1
            /\ stunResponses' =
                  AppendResponse(stunResponses, stunServerURLsToTestUDP[idx + 1])
            /\ pc' = "udp_resolve"
       ELSE /\ pc' = "udp_log"
            /\ UNCHANGED <<idx, stunResponses>>
    /\ rawResponse' = NoBytes
    /\ response' = NoMessage
    /\ bindResponseAddr' = None
    /\ UNCHANGED <<Config, now, udpConn, tcpConns, bindRequest, bindRequestRaw,
                   bindStart, sent, log, sink, errUDP, errTCP>>

\* Faulty variant of UDPResolveOK: the resolved address is not stored.
UDPResolveOK_NotStored ==
    /\ UNCHANGED stunResponses
    /\ pc' = "udp_write"
    /\ UNCHANGED log

\* udpAddr resolved: stunResponse.STUNServerAddr = udpAddr.String()
UDPResolveOK ==
    /\ stunResponses' =
          SetServerAddr(stunResponses,
                        ResolvedString("udp4", stunServerURLsToTestUDP[idx]))
    /\ pc' = "udp_write"
    /\ UNCHANGED log

\* Faulty variant of UDPResolveFailed: the continue is missing, the send
\* follows.
UDPResolveFailed_FallThrough ==
    /\ log' = Logged(log, "udp", stunServerURLsToTestUDP[idx],
                     "Error resolving URL to a UDP address", <<>>)
    /\ pc' = "udp_write"
    /\ UNCHANGED stunResponses

\* if err != nil { logger.Errorw("Error resolving URL to a UDP address"); continue }
UDPResolveFailed ==
    /\ UDPFail("Error resolving URL to a UDP address", <<>>)
    /\ UNCHANGED stunResponses

\* udpAddr, err := net.ResolveUDPAddr("udp4", stunServerURLToTest)
UDPResolve ==
    /\ pc = "udp_resolve"
    /\ \E d \in ResolveTimes : now' = now + d
    /\ (UDPResolveOK \/ UDPResolveFailed)
    /\ UNCHANGED <<Config, udpConn, tcpConns, bindRequest, bindRequestRaw,
                   idx, bindStart, Locals, sent, sink, errUDP, errTCP>>

\* bindStart := time.Now(); n, err := conn.WriteTo(bindRequestRaw, udpAddr)
\* followed by the err and the n != len(bindRequestRaw) checks.  SetDeadline
\* covers writes too: a write on a socket whose deadline has passed fails at
\* once.  A datagram leaves whole or not at all.
UDPWriteTo ==
    /\ pc = "udp_write"
    /\ bindStart' = now
    /\ IF DeadlinePassed(udpConn.armed, udpConn.deadline, now)
       THEN /\ UDPFail("Error writing to conn", <<>>)
            /\ UNCHANGED <<now, sent>>
       ELSE /\ now' = now + 1
            /\ \/ /\ UDPFail("Error writing to conn", <<>>)
                  /\ UNCHANGED sent
               \/ \E n \in 0..Len(bindRequestRaw) :
                     /\ sent' = Transmit(sent, "udp", idx,
                                         stunServerURLsToTestUDP[idx],
                                         IF n = Len(bindRequestRaw)
                                         THEN bindRequestRaw ELSE <<>>)
                     /\ IF ShortWrite(n, bindRequestRaw)
                        THEN UDPFail("Only wrote %d/%d of bind request",
                                     <<n, Len(bindRequestRaw)>>)
                        ELSE /\ pc' = "udp_read"
                             /\ UNCHANGED log
    /\ UNCHANGED <<Config, udpConn, tcpConns, bindRequest, bindRequestRaw, idx,
                   stunResponses, Locals, sink, errUDP, errTCP>>

\* Who can have put a datagram on the UDP socket: a server a request of this
\* run went to, or anyone else who knows the socket's address.
UDPSenders ==
    {sent[k].to : k \in {j \in 1..Len(sent) : sent[j].transport = "udp"}}
    \cup {Stranger}

\* n, _, err = conn.ReadFrom(rawResponse) and its err check.  With the
\* deadline passed the read fails at once.  Otherwise either a datagram
\* arrives in time, or none does: then the read fails when the deadline
\* comes, or, with no deadline armed, never returns.
UDPReadFrom ==
    /\ pc = "udp_read"
    /\ IF DeadlinePassed(udpConn.armed, udpConn.deadline, now)
       THEN /\ UDPFail("Error reading from conn", <<>>)
            /\ UNCHANGED <<now, rawResponse>>
       ELSE \/ \E d \in 1..MaxDelay : \E dg \in Datagrams(UDPSenders) :
                  /\ ArrivesInTime(udpConn.armed, udpConn.deadline, now, d)
                  /\ now' = now + d
                  /\ rawResponse' = dg
                  /\ pc' = "udp_decode"
                  /\ UNCHANGED log
            \/ /\ udpConn.armed
               /\ now' = udpConn.deadline
               /\ UDPFail("Error reading from conn", <<>>)
               /\ UNCHANGED rawResponse
            \/ /\ ~udpConn.armed
               /\ pc' = "udp_read_blocked"
               /\ UNCHANGED <<now, rawResponse, log>>
    /\ UNCHANGED <<Config, udpConn, tcpConns, bindRequest, bindRequestRaw, idx,
                   stunResponses, bindStart, response, bindResponseAddr, sent,
                   sink, errUDP, errTCP>>

\* if err := stun.Decode(rawResponse, response); err != nil { continue }
UDPDecode ==
    /\ pc = "udp_decode"
    /\ IF DecodeOK(rawResponse)
       THEN /\ response' = Decode(rawResponse)
            /\ pc' = "udp_switch"
            /\ UNCHANGED log
       ELSE /\ UDPFail("Error decoding STUN message", <<>>)
            /\ UNCHANGED response
    /\ UNCHANGED <<Config, now, udpConn, tcpConns, bindRequest, bindRequestRaw,
                   idx, stunResponses, bindStart, rawResponse, bindResponseAddr,
                   sent, sink, errUDP, errTCP>>

\* The case of the switch a response class takes: stun.ClassSuccessResponse.
AcceptedClass(c) == c = "SuccessResponse"

\* switch c := response.Type.Class; c { case stun.ClassSuccessResponse: ...
\* default: logger.Errorw("Unexpected STUN response received", ...) }
UDPSwitchClass ==
    /\ pc = "udp_switch"
    /\ IF AcceptedClass(response.Class)
       THEN /\ pc' = "udp_getfrom"
            /\ UNCHANGED log
       ELSE UDPFail("Unexpected STUN response received", <<response.Class>>)
    /\ UNCHANGED <<Config, now, udpConn, tcpConns, bindRequest, bindRequestRaw,
                   idx, stunResponses, bindStart, Locals, sent, sink, errUDP,
                   errTCP>>

\* if err := bindResponseAddr.GetFrom(response); err != nil { continue }
UDPGetFrom ==
    /\ pc = "udp_getfrom"
    /\ IF GetFromOK(response)
       THEN /\ bindResponseAddr' = GetFrom(response)
            /\ pc' = "udp_txid"
            /\ UNCHANGED log
       ELSE /\ UDPFail("Error extracting address from STUN message", <<>>)
            /\ UNCHANGED bindResponseAddr
    /\ UNCHANGED <<Config, now, udpConn, tcpConns, bindRequest, bindRequestRaw,
                   idx, stunResponses, bindStart, rawResponse, response, sent,
                   sink, errUDP, errTCP>>

\* Faulty variant of TransactionMismatch: the IDs are never compared.
TransactionMismatch_Never(req, resp) == FALSE

\* bindRequest.TransactionID != response.TransactionID
TransactionMismatch(req, resp) == req.TransactionID # resp.TransactionID

\* if bindRequest.TransactionID != response.TransactionID { log; continue }
UDPCheckTransactionID ==
    /\ pc = "udp_txid"
    /\ IF TransactionMismatch(bindRequest, response)
       THEN UDPFail("Transaction ID mismatch (expected %s, got %s)",
                    <<EncodeToString(bindRequest.TransactionID),
                      EncodeToString(response.TransactionID)>>)
       ELSE /\ pc' = "udp_addr"
            /\ UNCHANGED log
    /\ UNCHANGED <<Config, now, udpConn, tcpConns, bindRequest, bindRequestRaw,
                   idx, stunResponses, bindStart, Locals, sent, sink, errUDP,
                   errTCP>>

\* stunResponse.BindResponseAddr = bindResponseAddr.String(): the first of
\* the two assignments that complete the record.
UDPSetBindResponseAddr ==
    /\ pc = "udp_addr"
    /\ stunResponses' = SetBindResponseAddr(stunResponses, bindResponseAddr)
    /\ pc' = "udp_duration"
    /\ UNCHANGED <<Config, now, udpConn, tcpConns, bindRequest, bindRequestRaw,
                   idx, bindStart, Locals, sent, log, sink, errUDP, errTCP>>

\* stunResponse.TimeToBindResponse = time.Since(bindStart): the second
\* assignment; the loop body ends.
UDPSetTimeToBindResponse ==
    /\ pc = "udp_duration"
    /\ stunResponses' = SetTimeToBindResponse(stunResponses, bindStart, now)
    /\ UDPContinue
    /\ UNCHANGED <<Config, now, udpConn, tcpConns, bindRequest, bindRequestRaw,
                   idx, bindStart, Locals, sent, log, sink, errUDP, errTCP>>

\* logSTUNResults(logger, stunResponses): the batch goes to the sink as it is.
LogSTUNResults(s, transport, rs) == Append(s, [transport |-> transport, batch |-> rs])

\* logSTUNResults(logger, stunResponses); return nil
UDPLogResults ==
    /\ pc = "udp_log"
    /\ sink' = LogSTUNResults(sink, "udp", stunResponses)
    /\ UDPReturn("nil")
    /\ UNCHANGED <<Config, now, tcpConns, bindRequest, bindRequestRaw, idx,
                   stunResponses, bindStart, Locals, sent, log, errTCP>>

(***************************************************************************)
(* testTCP                                                                 *)
(***************************************************************************)
\* One deferred conn.Close().
CloseTCP(c) == [c EXCEPT !.state = "closed", !.closes = @ + 1]

\* Faulty variant of RunDeferred: every deferred closure closes the conn
\* dialed last.
RunDeferred_LastOnly(cs) ==
    [k \in 1..Len(cs) |->
        IF k = Len(cs)
        THEN [cs[k] EXCEPT !.state = "closed", !.closes = @ + Len(cs)]
        ELSE cs[k]]

\* The deferred closes of testTCP: one per dialed connection, each closing
\* the conn of its own iteration; they run when the function returns.
RunDeferred(cs) == [k \in 1..Len(cs) |-> CloseTCP(cs[k])]

\* return err / return nil of testTCP.
TCPReturn(e) ==
    /\ errTCP' = e
    /\ tcpConns' = RunDeferred(tcpConns)
    /\ pc' = "main_after_tcp"

\* continue: the loop advances.
TCPContinue == pc' = "tcp_range"

\* logger.WithFields("stun_server_url", stunServerURLToTest).Error...(msg, ...)
\* followed by continue.
TCPFail(msg, fields) ==
    /\ log' = Logged(log, "tcp", stunServerURLsToTestTCP[idx], msg, fields)
    /\ TCPContinue

\* bindRequest, err := stun.Build(...); bindRequestRaw, err := MarshalBinary();
\* either can fail, and then the run returns the error.
TCPBuild ==
    /\ pc = "tcp_build"
    /\ \/ /\ \E tid \in TxIDs :
                /\ bindRequest' = Build(tid)
                /\ bindRequestRaw' = MarshalBinary(Build(tid))
          /\ pc' = "tcp_range"
          /\ UNCHANGED <<errTCP, tcpConns>>
       \/ /\ TCPReturn("error")
          /\ UNCHANGED <<bindRequest, bindRequestRaw>>
    /\ UNCHANGED <<Config, now, udpConn, idx, stunResponses, bindStart,
                   Locals, sent, log, sink, errUDP>>

\* for _, stunServerURLToTest := range stunServerURLsToTestTCP {
\* Each iteration has its own locals; after the last one the loop is left.
TCPRange ==
    /\ pc = "tcp_range"
    /\ IF MoreServers(idx, stunServerURLsToTestTCP)
       THEN /\ idx' = idx + 1
            /\ pc' = "tcp_dial"
       ELSE /\ pc' = "tcp_log"
            /\ UNCHANGED idx
    /\ rawResponse' = NoBytes
    /\ response' = NoMessage
    /\ bindResponseAddr' = None
    /\ UNCHANGED <<Config, now, udpConn, tcpConns, bindRequest, bindRequestRaw,
                   stunResponses, bindStart, sent, log, sink, errUDP, errTCP>>

\* How long a dial that fails can take: refused at once, or, with the
\* dialer's Timeout set, given up after it.
DialFailureTimes(to) == {1} \cup (IF to > 0 THEN {to} ELSE {})

\* The dial succeeded: conn is open, with no read deadline ("armed") and no
\* write deadline ("writeArmed") yet; its close is deferred.
TCPDialOK ==
    /\ now' = now + 1
    /\ tcpConns' = Append(tcpConns, [iter |-> idx, state |-> "open",
                                     peer |-> stunServerURLsToTestTCP[idx],
                                     armed |-> FALSE, readDeadline |-> 0,
                                     writeArmed |-> FALSE, closes |-> 0])
    /\ pc' = "tcp_setdeadline"
    /\ UNCHANGED <<log, errTCP>>

\* Faulty variant of TCPDialFailed: the dial error is returned.
TCPDialFailed_Fatal ==
    /\ \E d \in DialFailureTimes(timeout) : now' = now + d
    /\ log' = Logged(log, "tcp", stunServerURLsToTestTCP[idx],
                     "Error dialing STUN server via tcp", <<>>)
    /\ TCPReturn("error")

\* if err != nil { logger.Error("Error dialing STUN server via tcp"); continue }
TCPDialFailed ==
    /\ \E d \in DialFailureTimes(timeout) : now' = now + d
    /\ TCPFail("Error dialing STUN server via tcp", <<>>)
    /\ UNCHANGED <<tcpConns, errTCP>>

\* conn, err := dialer.Dial("tcp", stunServerURLToTest)
\* if err != nil { continue };  defer func() { conn.Close() }()
TCPDial ==
    /\ pc = "tcp_dial"
    /\ (TCPDialOK \/ TCPDialFailed)
    /\ UNCHANGED <<Config, udpConn, bindRequest, bindRequestRaw, idx,
                   stunResponses, bindStart, Locals, sent, sink, errUDP>>

\* conn is the connection dialed last.  Only its reads get the deadline.
SetReadDeadline(cs, t) ==
    [cs EXCEPT ![Len(cs)].armed = TRUE, ![Len(cs)].readDeadline = t]

\* if timeout > 0 { if err := conn.SetReadDeadline(...); err != nil { continue } }
TCPSetReadDeadline ==
    /\ pc = "tcp_setdeadline"
    /\ IF ArmsDeadline(timeout)
       THEN \/ /\ tcpConns' = SetReadDeadline(tcpConns, now + timeout)
               /\ pc' = "tcp_new"
               /\ UNCHANGED log
            \/ /\ TCPFail("Error setting read deadline on TCP connection", <<>>)
               /\ UNCHANGED tcpConns
       ELSE /\ pc' = "tcp_new"
            /\ UNCHANGED <<tcpConns, log>>
    /\ UNCHANGED <<Config, now, udpConn, bindRequest, bindRequestRaw, idx,
                   stunResponses, bindStart, Locals, sent, sink, errUDP, errTCP>>

\* stunResponse := NewSTUNResponse(stunServerURLToTest)
\* stunResponses = append(stunResponses, stunResponse)
TCPNewResponse ==
    /\ pc = "tcp_new"
    /\ stunResponses' = AppendResponse(stunResponses, stunServerURLsToTestTCP[idx])
    /\ pc' = "tcp_resolve"
    /\ UNCHANGED <<Config, now, udpConn, tcpConns, bindRequest, bindRequestRaw,
                   idx, bindStart, Locals, sent, log, sink, errUDP, errTCP>>

\* tcpAddr resolved: stunResponse.STUNServerAddr = tcpAddr.String()
TCPResolveOK ==
    /\ stunResponses' =
          SetServerAddr(stunResponses,
                        ResolvedString("tcp", stunServerURLsToTestTCP[idx]))
    /\ pc' = "tcp_write"
    /\ UNCHANGED log

\* if err != nil { logger.Errorw("Error resolving URL to a TCP address"); continue }
TCPResolveFailed ==
    /\ TCPFail("Error resolving URL to a TCP address", <<>>)
    /\ UNCHANGED stunResponses

\* tcpAddr, err := net.ResolveTCPAddr("tcp", stunServerURLToTest)
TCPResolve ==
    /\ pc = "tcp_resolve"
    /\ \E d \in ResolveTimes : now' = now + d
    /\ (TCPResolveOK \/ TCPResolveFailed)
    /\ UNCHANGED <<Config, udpConn, tcpConns, bindRequest, bindRequestRaw,
                   idx, bindStart, Locals, sent, sink, errUDP, errTCP>>

\* bindStart := time.Now(); n, err := conn.Write(bindRequestRaw) followed by
\* the err and the n != len(bindRequestRaw) checks.  Only a read deadline is
\* armed on the connection, so none applies to the write; the write is the
\* first on a connection just dialed and the request is a header of a few
\* bytes, which the connection's send buffer takes whatever the peer reads,
\* so the call returns without waiting for the peer.
TCPWrite ==
    /\ pc = "tcp_write"
    /\ bindStart' = now
    /\ now' = now + 1
    /\ \/ /\ TCPFail("Error writing to conn", <<>>)
          /\ UNCHANGED sent
       \/ \E n \in 0..Len(bindRequestRaw) :
             /\ sent' = Transmit(sent, "tcp", idx, stunServerURLsToTestTCP[idx],
                                 SubSeq(bindRequestRaw, 1, n))
             /\ IF ShortWrite(n, bindRequestRaw)
                THEN TCPFail("Only wrote %d/%d of bind request",
                             <<n, Len(bindRequestRaw)>>)
                ELSE /\ pc' = "tcp_read"
                     /\ UNCHANGED log
    /\ UNCHANGED <<Config, udpConn, tcpConns, bindRequest, bindRequestRaw, idx,
                   stunResponses, Locals, sink, errUDP, errTCP>>

\* n, err = conn.Read(rawResponse) and its err check.  With the read
\* deadline passed the read fails at once.  Otherwise the peer's bytes
\* arrive in time, or the peer closes or resets the connection, or nothing
\* arrives: then the read fails when the read deadline comes, or, with none
\* armed, never returns.
TCPRead ==
    /\ pc = "tcp_read"
    /\ LET conn == tcpConns[Len(tcpConns)] IN
       IF DeadlinePassed(conn.armed, conn.readDeadline, now)
       THEN /\ TCPFail("Error reading from conn", <<>>)
            /\ UNCHANGED <<now, rawResponse>>
       ELSE \/ \E d \in 1..MaxDelay : \E dg \in Datagrams({conn.peer}) :
                  /\ ArrivesInTime(conn.armed, conn.readDeadline, now, d)
                  /\ now' = now + d
                  /\ rawResponse' = dg
                  /\ pc' = "tcp_decode"
                  /\ UNCHANGED log
            \/ /\ ArrivesInTime(conn.armed, conn.readDeadline, now, 1)
               /\ now' = now + 1
               /\ TCPFail("Error reading from conn", <<>>)
               /\ UNCHANGED rawResponse
            \/ /\ conn.armed
               /\ now' = conn.readDeadline
               /\ TCPFail("Error reading from conn", <<>>)
               /\ UNCHANGED rawResponse
            \/ /\ ~conn.armed
               /\ pc' = "tcp_read_blocked"
               /\ UNCHANGED <<now, rawResponse, log>>
    /\ UNCHANGED <<Config, udpConn, tcpConns, bindRequest, bindRequestRaw, idx,
                   stunResponses, bindStart, response, bindResponseAddr, sent,
                   sink, errUDP, errTCP>>

\* if err := stun.Decode(rawResponse, response); err != nil { continue }
TCPDecode ==
    /\ pc = "tcp_decode"
    /\ IF DecodeOK(rawResponse)
       THEN /\ response' = Decode(rawResponse)
            /\ pc' = "tcp_switch"
            /\ UNCHANGED log
       ELSE /\ TCPFail("Error decoding STUN message", <<>>)
            /\ UNCHANGED response
    /\ UNCHANGED <<Config, now, udpConn, tcpConns, bindRequest, bindRequestRaw,
                   idx, stunResponses, bindStart, rawResponse, bindResponseAddr,
                   sent, sink, errUDP, errTCP>>

\* switch c := response.Type.Class; c { case stun.ClassSuccessResponse: ...
\* default: logger.Errorw("Unexpected STUN response received", ...) }
TCPSwitchClass ==
    /\ pc = "tcp_switch"
    /\ IF AcceptedClass(response.Class)
       THEN /\ pc' = "tcp_getfrom"
            /\ UNCHANGED log
       ELSE TCPFail("Unexpected STUN response received", <<response.Class>>)
    /\ UNCHANGED <<Config, now, udpConn, tcpConns, bindRequest, bindRequestRaw,
                   idx, stunResponses, bindStart, Locals, sent, sink, errUDP,
                   errTCP>>

\* if err := bindResponseAddr.GetFrom(response); err != nil { continue }
TCPGetFrom ==
    /\ pc = "tcp_getfrom"
    /\ IF GetFromOK(response)
       THEN /\ bindResponseAddr' = GetFrom(response)
            /\ pc' = "tcp_txid"
            /\ UNCHANGED log
       ELSE /\ TCPFail("Error extracting address from STUN message", <<>>)
            /\ UNCHANGED bindResponseAddr
    /\ UNCHANGED <<Config, now, udpConn, tcpConns, bindRequest, bindRequestRaw,
                   idx, stunResponses, bindStart, rawResponse, response, sent,
                   sink, errUDP, errTCP>>

\* if bindRequest.TransactionID != response.TransactionID { log; continue }
TCPCheckTransactionID ==
    /\ pc = "tcp_txid"
    /\ IF TransactionMismatch(bindRequest, response)
       THEN TCPFail("Transaction ID mismatch (expected %s, got %s)",
                    <<EncodeToString(bindRequest.TransactionID),
                      EncodeToString(response.TransactionID)>>)
       ELSE /\ pc' = "tcp_addr"
            /\ UNCHANGED log
    /\ UNCHANGED <<Config, now, udpConn, tcpConns, bindRequest, bindRequestRaw,
                   idx, stunResponses, bindStart, Locals, sent, sink, errUDP,
                   errTCP>>

\* stunResponse.BindResponseAddr = bindResponseAddr.String(): the first of
\* the two assignments that complete the record.
TCPSetBindResponseAddr ==
    /\ pc = "tcp_addr"
    /\ stunResponses' = SetBindResponseAddr(stunResponses, bindResponseAddr)
    /\ pc' = "tcp_duration"
    /\ UNCHANGED <<Config, now, udpConn, tcpConns, bindRequest, bindRequestRaw,
                   idx, bindStart, Locals, sent, log, sink, errUDP, errTCP>>

\* stunResponse.TimeToBindResponse = time.Since(bindStart): the second
\* assignment; the loop body ends.
TCPSetTimeToBindResponse ==
    /\ pc = "tcp_duration"
    /\ stunResponses' = SetTimeToBindResponse(stunResponses, bindStart, now)
    /\ TCPContinue
    /\ UNCHANGED <<Config, now, udpConn, tcpConns, bindRequest, bindRequestRaw,
                   idx, bindStart, Locals, sent, log, sink, errUDP, errTCP>>

\* logSTUNResults(logger, stunResponses); return nil
TCPLogResults ==
    /\ pc = "tcp_log"
    /\ sink' = LogSTUNResults(sink, "tcp", stunResponses)
    /\ TCPReturn("nil")
    /\ UNCHANGED <<Config, now, udpConn, bindRequest, bindRequestRaw, idx,
                   stunResponses, bindStart, Locals, sent, log, errUDP>>

(***************************************************************************)
(* main                                                                    *)
(***************************************************************************)
\* Faulty variant of Fatal: main ignores the error.
Fatal_Never(err) == FALSE

\* if err := test...(...); err != nil { panic(err) }
Fatal(err) == err # "nil"

\* The check of testUDP's result in main, and the call of testTCP, which
\* starts with fresh locals.
MainAfterUDP ==
    /\ pc = "main_after_udp"
    /\ IF Fatal(errUDP)
       THEN /\ pc' = "panic"
            /\ UNCHANGED <<bindRequest, bindRequestRaw, idx, stunResponses,
                           bindStart, Locals>>
       ELSE /\ pc' = "tcp_build"
            /\ bindRequest' = NoRequest
            /\ bindRequestRaw' = <<>>
            /\ idx' = 0
            /\ stunResponses' = <<>>
            /\ bindStart' = 0
            /\ rawResponse' = NoBytes
            /\ response' = NoMessage
            /\ bindResponseAddr' = None
    /\ UNCHANGED <<Config, now, udpConn, tcpConns, sent, log, sink, errUDP,
                   errTCP>>

\* The check of testTCP's result in main; main returns.
MainAfterTCP ==
    /\ pc = "main_after_tcp"
    /\ pc' = IF Fatal(errTCP) THEN "panic" ELSE "exit"
    /\ UNCHANGED <<Config, now, udpConn, tcpConns, bindRequest, bindRequestRaw,
                   idx, stunResponses, bindStart, Locals, sent, log, sink,
                   errUDP, errTCP>>

Next ==
    \/ UDPListenPacket
    \/ UDPSetDeadline
    \/ UDPBuild
    \/ UDPRange
    \/ UDPResolve
    \/ UDPWriteTo
    \/ UDPReadFrom
    \/ UDPDecode
    \/ UDPSwitchClass
    \/ UDPGetFrom
    \/ UDPCheckTransactionID
    \/ UDPSetBindResponseAddr
    \/ UDPSetTimeToBindResponse
    \/ UDPLogResults
    \/ MainAfterUDP
    \/ TCPBuild
    \/ TCPRange
    \/ TCPDial
    \/ TCPSetReadDeadline
    \/ TCPNewResponse
    \/ TCPResolve
    \/ TCPWrite
    \/ TCPRead
    \/ TCPDecode
    \/ TCPSwitchClass
    \/ TCPGetFrom
    \/ TCPCheckTransactionID
    \/ TCPSetBindResponseAddr
    \/ TCPSetTimeToBindResponse
    \/ TCPLogResults
    \/ MainAfterTCP

Spec == Init /\ [][Next]_vars

\* main runs on one goroutine that nothing else can hold up: whenever the
\* program has a next step, it takes it.
FairSpec == Spec /\ WF_vars(Next)

(***************************************************************************)
(* Vocabulary of the properties.                                           *)
(***************************************************************************)
\* The positions in the sink of the batches of one transport.
Batches(t) == {k \in 1..Len(sink) : sink[k].transport = t}

ListOf(t) == IF t = "udp" THEN stunServerURLsToTestUDP ELSE stunServerURLsToTestTCP

\* A record with only queriedEndpoint set.
OnlyQueried(r, url) ==
    /\ r.STUNServerURL = url
    /\ r.STUNServerAddr = ""
    /\ r.BindResponseAddr = ""
    /\ r.TimeToBindResponse = 0

\* One record per configured endpoint, in configuration order.
InOrder(batch, list) ==
    /\ Len(batch) = Len(list)
    /\ \A i \in 1..Len(list) : batch[i].STUNServerURL = list[i]

\* The messages of one logger with one text.
LogEntries(t, msgs) == {j \in 1..Len(log) : log[j].logger = t /\ log[j].msg \in msgs}

\* The positions of testUDP.
UDPPositions ==
    {"udp_listen", "udp_setdeadline", "udp_build", "udp_range", "udp_resolve",
     "udp_write", "udp_read", "udp_read_blocked", "udp_decode", "udp_switch",
     "udp_getfrom", "udp_txid", "udp_addr", "udp_duration", "udp_log"}

\* The positions of testTCP.
TCPPositions ==
    {"tcp_build", "tcp_range", "tcp_dial", "tcp_setdeadline", "tcp_new",
     "tcp_resolve", "tcp_write", "tcp_read", "tcp_read_blocked", "tcp_decode",
     "tcp_switch", "tcp_getfrom", "tcp_txid", "tcp_addr", "tcp_duration",
     "tcp_log"}

\* The run the thread of control is in.
Running == IF pc \in UDPPositions THEN "udp" ELSE "tcp"

\* The record the current iteration works on.
Current == stunResponses[Len(stunResponses)]

\* The loop stands between two iterations (or after the last).
IterationEnded == pc \in {"udp_range", "tcp_range"}

\* A response was decoded in the current iteration and is the wrong one:
\* not a success response, or not carrying the request's transaction ID.
BadResponse ==
    /\ response # NoMessage
    /\ \/ response.Class # "SuccessResponse"
       \/ response.TransactionID # bindRequest.TransactionID

\* A response was decoded in the current iteration and passes every check.
GoodResponse ==
    /\ response # NoMessage
    /\ response.Class = "SuccessResponse"
    /\ response.xor # NoAttr
    /\ response.TransactionID = bindRequest.TransactionID

\* Between entering a run's loop and its report, the records of finished
\* iterations are never changed or dropped, and the report hands over the
\* slice as it stands.
RecordsFrozen ==
    /\ pc # "main_after_udp" =>
          \A k \in 1..Len(stunResponses) :
             (k < Len(stunResponses) \/ IterationEnded) =>
                /\ Len(stunResponses') >= k
                /\ stunResponses'[k] = stunResponses[k]
    /\ sink' # sink =>
          /\ Len(sink') = Len(sink) + 1
          /\ SubSeq(sink', 1, Len(sink)) = sink
          /\ sink'[Len(sink')].batch = stunResponses

(***************************************************************************)
(* C1.  UDP run: whatever happens at each server, the batch testUDP hands  *)
(* to the sink has exactly one record per configured endpoint, and the     *)
(* i-th record's queriedEndpoint is the i-th configured endpoint.          *)
(***************************************************************************)
C1_UDPBatchComplete ==
    \A k \in Batches("udp") : InOrder(sink[k].batch, stunServerURLsToTestUDP)

\* A reported UDP batch of two servers: the first failed to resolve, the
\* second completed its exchange.
C1_Witness ==
    \E k \in Batches("udp") :
       /\ Len(sink[k].batch) = 2
       /\ sink[k].batch[1].STUNServerAddr = ""
       /\ sink[k].batch[2].BindResponseAddr # ""

(***************************************************************************)
(* C2.  TCP run: the batch testTCP hands to the sink has exactly one       *)
(* record per configured endpoint in configuration order, also when a dial *)
(* or a read-deadline setup failed; a server whose dial failed has a       *)
(* record with only queriedEndpoint set.                                   *)
(***************************************************************************)
C2_TCPBatchComplete ==
    \A k \in Batches("tcp") :
       /\ InOrder(sink[k].batch, stunServerURLsToTestTCP)
       /\ \A j \in LogEntries("tcp", {"Error dialing STUN server via tcp"}) :
             \E i \in 1..Len(sink[k].batch) :
                OnlyQueried(sink[k].batch[i], log[j].stun_server_url)

(***************************************************************************)
(* C3.  In both runs: when the response read for a server is not a success *)
(* response, or carries another transaction ID than the request, the       *)
(* server's record has mappedAddress and roundTripDuration unset, with     *)
(* queriedEndpoint and resolvedAddress set, and it reaches the reported    *)
(* batch that way.                                                         *)
(***************************************************************************)
C3_Unset ==
    BadResponse =>
       /\ Current.BindResponseAddr = ""
       /\ Current.TimeToBindResponse = 0
       /\ Current.STUNServerURL = ListOf(Running)[idx]
       /\ Current.STUNServerAddr # ""

C3_BadResponseLeavesUnset == [](C3_Unset) /\ [][RecordsFrozen]_vars

\* An iteration has ended on a success response with a mapped address whose
\* transaction ID is not the request's.
C3_Witness ==
    /\ IterationEnded
    /\ response # NoMessage
    /\ response.Class = "SuccessResponse"
    /\ response.xor # NoAttr
    /\ response.TransactionID # bindRequest.TransactionID
    /\ Current.BindResponseAddr = ""

(***************************************************************************)
(* C4.  In both runs: when the endpoint resolved, the request was written  *)
(* in full and the response read is a success response with a mapped       *)
(* address and the request's transaction ID, the record has mappedAddress  *)
(* set to the extracted address and roundTripDuration set to the time      *)
(* since just before the send, which is more than zero; and no other step  *)
(* sets either field.                                                      *)
(***************************************************************************)
C4_Set ==
    (IterationEnded /\ GoodResponse) =>
       /\ Current.STUNServerAddr # ""
       /\ Current.BindResponseAddr = response.xor
       /\ Current.TimeToBindResponse = now - bindStart
       /\ Current.TimeToBindResponse > 0

\* A step changes mappedAddress or roundTripDuration of a record only as
\* one of the two last steps of an iteration that holds a good response, the
\* first setting mappedAddress and the second roundTripDuration, and only
\* for that iteration's record; a record starts with both unset.
C4_OnlyPath ==
    stunResponses' # stunResponses =>
    \A k \in 1..Len(stunResponses') :
       IF k <= Len(stunResponses)
       THEN /\ stunResponses'[k].BindResponseAddr # stunResponses[k].BindResponseAddr
               => /\ pc \in {"udp_addr", "tcp_addr"}
                  /\ k = Len(stunResponses)
                  /\ GoodResponse
            /\ stunResponses'[k].TimeToBindResponse # stunResponses[k].TimeToBindResponse
               => /\ pc \in {"udp_duration", "tcp_duration"}
                  /\ k = Len(stunResponses)
                  /\ GoodResponse
       ELSE /\ stunResponses'[k].BindResponseAddr = ""
            /\ stunResponses'[k].TimeToBindResponse = 0

C4_SuccessSetsBoth == [](C4_Set) /\ [][C4_OnlyPath]_vars

\* A TCP iteration has ended on a good response and the record is complete.
C4_Witness ==
    /\ pc = "tcp_range"
    /\ GoodResponse
    /\ Current.BindResponseAddr \in MappedAddrs
    /\ Current.TimeToBindResponse > 0

(***************************************************************************)
(* C5.  UDP run with timeout > 0: a read timeout at one server ends only   *)
(* that server's exchange; when the loop comes to send to a later server,  *)
(* the send is still carried out and its response is still read, neither   *)
(* being refused because of the earlier timeout.                           *)
(***************************************************************************)
C5_TimeoutIsolated ==
    (/\ timeout > 0
     /\ pc \in {"udp_write", "udp_read"}
     /\ LogEntries("udp", {"Error reading from conn"}) # {})
    => ~DeadlinePassed(udpConn.armed, udpConn.deadline, now)

(***************************************************************************)
(* C6.  Resolution-failure isolation, in both runs: when resolving an      *)
(* endpoint fails, the reported batch has its record with only             *)
(* queriedEndpoint set, no request was sent to it, and every endpoint      *)
(* after it in the list was still visited by the loop.                     *)
(***************************************************************************)
ResolveErrors ==
    {"Error resolving URL to a UDP address", "Error resolving URL to a TCP address"}

\* The loop of run t came to the endpoint: it has a record or a log message.
Visited(t, url, batch) ==
    \/ \E i \in 1..Len(batch) : batch[i].STUNServerURL = url
    \/ \E j \in 1..Len(log) : log[j].logger = t /\ log[j].stun_server_url = url

C6_ResolveFailureIsolated ==
    \A k \in 1..Len(sink) :
       LET t == sink[k].transport
           batch == sink[k].batch
           list == ListOf(t)
       IN \A j \in LogEntries(t, ResolveErrors) :
             LET url == log[j].stun_server_url IN
             /\ \E i \in 1..Len(batch) : OnlyQueried(batch[i], url)
             /\ \A m \in 1..Len(sent) : ~(sent[m].transport = t /\ sent[m].to = url)
             /\ \A p \in 1..Len(list) :
                   (\E q \in 1..(p - 1) : list[q] = url) => Visited(t, list[p], batch)

\* A reported UDP batch: the first endpoint failed to resolve, the second
\* was probed to the end.
C6_Witness ==
    \E k \in Batches("udp") :
       /\ Len(sink[k].batch) = 2
       /\ \E j \in LogEntries("udp", ResolveErrors) :
             log[j].stun_server_url = stunServerURLsToTestUDP[1]
       /\ sink[k].batch[2].BindResponseAddr # ""

(***************************************************************************)
(* C7.  Failure to open the first channel of a run.                        *)
(***************************************************************************)
ListenFailed ==
    \E j \in 1..Len(log) :
       log[j].msg = "Failed to listen over UDP on a port; UDP traffic may be blocked"

FirstDialFailed ==
    /\ Len(stunServerURLsToTestTCP) >= 1
    /\ \E j \in LogEntries("tcp", {"Error dialing STUN server via tcp"}) :
          log[j].stun_server_url = stunServerURLsToTestTCP[1]

\* C7 as claimed: for both transports a failure to open the initial channel
\* (UDP: listen fails; TCP: the dial for the first server fails) is fatal:
\* the run returns an error and does not report.
C7_FirstChannelFailureFatal ==
    /\ ListenFailed => (errUDP = "error" /\ Batches("udp") = {})
    /\ FirstDialFailed => (errTCP # "nil" /\ Batches("tcp") = {} /\ pc # "exit")

\* C7 as amended: a UDP listen failure is fatal (testUDP returns the error
\* without reporting, main panics, the TCP run never starts); a failed dial
\* in the TCP run, also the one for the first server, is not fatal: the run
\* goes on, reports once and returns no error.
C7_ListenFatalDialNot ==
    /\ ListenFailed =>
          /\ errUDP = "error"
          /\ sink = <<>>
          /\ udpConn.state = "none"
          /\ tcpConns = <<>>
          /\ pc \in {"main_after_udp", "panic"}
    /\ FirstDialFailed =>
          /\ errTCP \in {None, "nil"}
          /\ pc # "panic"
          /\ pc \in {"main_after_tcp", "exit"} =>
                (errTCP = "nil" /\ Cardinality(Batches("tcp")) = 1)

\* The process has exited normally after the dial for the first TCP server
\* failed.
C7_Witness == FirstDialFailed /\ pc = "exit"

(***************************************************************************)
(* C8.  Per-server errors are never fatal: a run that completed its setup  *)
(* (request built) returns no error whatever failed at its servers, and    *)
(* hands its batch to the sink exactly once, after the last endpoint.      *)
(***************************************************************************)
C8_PerServerNeverFatal ==
    /\ (pc \in UDPPositions /\ bindRequest # NoRequest) =>
          (errUDP = None /\ Batches("udp") = {})
    /\ (pc \in TCPPositions /\ bindRequest # NoRequest) =>
          (errTCP = None /\ Batches("tcp") = {})
    /\ (pc = "main_after_udp" /\ bindRequest # NoRequest) =>
          /\ errUDP = "nil"
          /\ Cardinality(Batches("udp")) = 1
          /\ idx = Len(stunServerURLsToTestUDP)
    /\ (pc = "main_after_tcp" /\ bindRequest # NoRequest) =>
          /\ errTCP = "nil"
          /\ Cardinality(Batches("tcp")) = 1
          /\ idx = Len(stunServerURLsToTestTCP)
    /\ Cardinality(Batches("udp")) <= 1
    /\ Cardinality(Batches("tcp")) <= 1

\* testUDP has returned nil after two of its servers failed.
C8_Witness ==
    /\ pc = "main_after_udp"
    /\ errUDP = "nil"
    /\ Cardinality({log[j].stun_server_url : j \in 1..Len(log)}) = 2

(***************************************************************************)
(* C9.  Ordering across transports: whenever anything of the TCP run has   *)
(* happened, testUDP has reported its batch and returned nil; after an     *)
(* error from testUDP nothing of the TCP run ever happens.                 *)
(***************************************************************************)
TCPStarted ==
    \/ pc \in TCPPositions \cup {"main_after_tcp", "exit"}
    \/ tcpConns # <<>>
    \/ errTCP # None
    \/ Batches("tcp") # {}
    \/ \E j \in 1..Len(log) : log[j].logger = "tcp"
    \/ \E m \in 1..Len(sent) : sent[m].transport = "tcp"

\* No entry of the UDP run follows one of the TCP run.
UDPBeforeTCP(seq, Of(_)) ==
    \A i, j \in 1..Len(seq) : (Of(seq[i]) = "tcp" /\ Of(seq[j]) = "udp") => j < i

TransportOf(x) == x.transport

LoggerOf(x) == x.logger

C9_UDPBeforeTCP ==
    /\ TCPStarted =>
          /\ errUDP = "nil"
          /\ Cardinality(Batches("udp")) = 1
          /\ udpConn.state = "closed"
    /\ errUDP = "error" => (~TCPStarted /\ pc \in {"main_after_udp", "panic"})
    /\ UDPBeforeTCP(sent, TransportOf)
    /\ UDPBeforeTCP(sink, TransportOf)
    /\ UDPBeforeTCP(log, LoggerOf)

\* A TCP connection is dialed after the UDP run sent a request.
C9_Witness ==
    /\ tcpConns # <<>>
    /\ \E m \in 1..Len(sent) : sent[m].transport = "udp"

(***************************************************************************)
(* C10.  With timeout = 0 no deadline is armed on the UDP socket nor on    *)
(* any TCP connection, a read that nothing arrives for never returns and   *)
(* the run does not reach its report; with timeout > 0 the session being   *)
(* read has its deadline armed.                                            *)
(***************************************************************************)
BlockedPositions == {"udp_read_blocked", "tcp_read_blocked"}

C10_Deadlines ==
    /\ timeout = 0 =>
          /\ ~udpConn.armed
          /\ \A k \in 1..Len(tcpConns) : ~tcpConns[k].armed
    /\ pc \in BlockedPositions =>
          (timeout = 0 /\ Batches(Running) = {})
    /\ (timeout > 0 /\ pc = "udp_read") =>
          udpConn.armed
    /\ (timeout > 0 /\ pc = "tcp_read") => tcpConns[Len(tcpConns)].armed

\* No step leaves a blocked read.
StaysBlocked == pc \in BlockedPositions => pc' = pc

C10_NoDeadlineBlocks == [](C10_Deadlines) /\ [][StaysBlocked]_vars

\* A read of the TCP run is blocked for good.
C10_Witness == pc = "tcp_read_blocked" /\ timeout = 0

(***************************************************************************)
(* C11: connections of the TCP run are per iteration                       *)
(***************************************************************************)
\* The connections of the TCP run that are open.
OpenConns == {k \in 1..Len(tcpConns) : tcpConns[k].state = "open"}

\* C11: in a TCP run the connection opened for server i is closed before the
\* connection for server i+1 is dialed: when the loop is about to dial, no
\* connection of an earlier iteration is open, and at no point are the
\* connections of two different iterations open together.
C11_OneConnectionAtATime ==
    /\ pc = "tcp_dial" => OpenConns = {}
    /\ \A j, k \in OpenConns : tcpConns[j].iter = tcpConns[k].iter

(***************************************************************************)
(* C12: guaranteed release                                                 *)
(***************************************************************************)
\* A connection or socket that was opened is closed, and was closed once.
Released(c) == c.state = "closed" /\ c.closes = 1

\* C12: when testUDP or testTCP has returned, on whatever path, every socket
\* or connection the run opened is closed, exactly once, and none is left
\* open; a socket that was never opened is never closed, and nothing is
\* closed twice at any point.
C12_GuaranteedRelease ==
    /\ errUDP # None =>
          \/ Released(udpConn)
          \/ udpConn.state = "none" /\ udpConn.closes = 0
    /\ errTCP # None => \A k \in 1..Len(tcpConns) : Released(tcpConns[k])
    /\ udpConn.closes <= 1
    /\ \A k \in 1..Len(tcpConns) : tcpConns[k].closes <= 1

\* Both runs returned; the TCP run dialed two connections and left one
\* iteration early, and both connections and the socket are released.
C12_Witness ==
    /\ errUDP = "nil" /\ Released(udpConn)
    /\ errTCP = "nil" /\ Len(tcpConns) = 2
    /\ \A k \in 1..Len(tcpConns) : Released(tcpConns[k])
    /\ \E k \in 1..Len(log) : log[k].logger = "tcp"

(***************************************************************************)
(* C13: with a timeout every run terminates                                *)
(***************************************************************************)
\* main has returned or panicked.
Terminated == pc \in {"exit", "panic"}

\* The positions of the UDP loop, and the positions of a TCP iteration from
\* the receive on.
UDPLoopPositions == UDPPositions \ {"udp_listen", "udp_setdeadline", "udp_build"}
TCPReadPositions == {"tcp_read", "tcp_decode", "tcp_switch", "tcp_getfrom",
                     "tcp_txid", "tcp_addr", "tcp_duration"}

\* With a timeout, the sends and receives of the UDP loop and the receive of
\* a TCP iteration happen under an armed deadline, and no receive waits
\* forever; the send of a TCP iteration is under no deadline.
C13_Bounded ==
    timeout > 0 =>
       /\ pc \in UDPLoopPositions => udpConn.armed
       /\ pc \in TCPReadPositions => tcpConns[Len(tcpConns)].armed
       /\ pc = "tcp_write" => ~tcpConns[Len(tcpConns)].writeArmed
       /\ pc \notin BlockedPositions

\* A call made under the deadline d at time t is over by d, or, made with d
\* passed, fails without waiting.
OverBy(d, t) == now' <= IF t >= d THEN t ELSE d

\* With a timeout, the send and the receive of a UDP iteration and the
\* receive of a TCP iteration are over by the session's deadline.
C13_CallsBounded ==
    timeout > 0 =>
       /\ pc \in {"udp_write", "udp_read"} => OverBy(udpConn.deadline, now)
       /\ pc = "tcp_read" => OverBy(tcpConns[Len(tcpConns)].readDeadline, now)

\* C13 as stated: with timeout > 0 every send and every receive of a run,
\* the send on a TCP connection too, is made under a deadline armed for it.
C13_EverySendAndReceiveBounded ==
    timeout > 0 =>
       /\ pc \in UDPLoopPositions => udpConn.armed
       /\ pc \in TCPReadPositions => tcpConns[Len(tcpConns)].armed
       /\ pc = "tcp_write" => tcpConns[Len(tcpConns)].writeArmed

\* How many steps of its iteration a position still has before it, at most.
StepsLeft(p) ==
    CASE p \in {"udp_range", "tcp_range"} -> 0
      [] p \in {"udp_duration", "tcp_duration"} -> 1
      [] p \in {"udp_addr", "tcp_addr"} -> 2
      [] p \in {"udp_txid", "tcp_txid"} -> 3
      [] p \in {"udp_getfrom", "tcp_getfrom"} -> 4
      [] p \in {"udp_switch", "tcp_switch"} -> 5
      [] p \in {"udp_decode", "tcp_decode"} -> 6
      [] p \in BlockedPositions -> 7
      [] p \in {"udp_read", "tcp_read"} -> 8
      [] p \in {"udp_write", "tcp_write"} -> 9
      [] p \in {"udp_resolve", "tcp_resolve"} -> 10
      [] p = "tcp_new" -> 11
      [] p = "tcp_setdeadline" -> 12
      [] p = "tcp_dial" -> 13
      [] OTHER -> 0

\* One more than the longest iteration.
IterationSteps == StepsLeft("tcp_dial") + 1

\* The steps a loop at position p still has before it: the rest of this
\* iteration and every iteration not begun.
LoopMeasure(p, list) == (Len(list) - idx) * IterationSteps + StepsLeft(p)

\* The steps testTCP and the end of main still have before them.
TCPMeasure(p) ==
    CASE p \in {"exit", "panic"} -> 0
      [] p = "main_after_tcp" -> 1
      [] p = "tcp_log" -> 2
      [] p = "tcp_build" -> 4 + Len(stunServerURLsToTestTCP) * IterationSteps
      [] OTHER -> 3 + LoopMeasure(p, stunServerURLsToTestTCP)

\* The steps the program still has before it: it decreases with every step,
\* so no run goes on forever.
Measure ==
    LET rest == 5 + Len(stunServerURLsToTestTCP) * IterationSteps IN
    CASE pc = "main_after_udp" -> rest
      [] pc = "udp_log" -> rest + 1
      [] pc = "udp_build" ->
            rest + 3 + Len(stunServerURLsToTestUDP) * IterationSteps
      [] pc = "udp_setdeadline" ->
            rest + 4 + Len(stunServerURLsToTestUDP) * IterationSteps
      [] pc = "udp_listen" ->
            rest + 5 + Len(stunServerURLsToTestUDP) * IterationSteps
      [] pc \in UDPPositions
            /\ pc \notin {"udp_log", "udp_build", "udp_setdeadline", "udp_listen"} ->
            rest + 2 + LoopMeasure(pc, stunServerURLsToTestUDP)
      [] OTHER -> TCPMeasure(pc)

Progresses == Measure' < Measure

\* With a timeout the program always has a next step until main is over.
C13_NeverStuck == timeout > 0 => (Terminated \/ ENABLED Next)

\* A run that has left its loop has reported its batch.
C13_Reports ==
    /\ (errUDP = "nil" => Batches("udp") # {})
    /\ (errTCP = "nil" => Batches("tcp") # {})

\* C13, amended: with timeout > 0 every receive, and every send of the UDP
\* run, is bounded by the armed deadline, and the send of a TCP iteration,
\* under no deadline, returns; so the program terminates whatever the servers
\* and the network do: it is never stuck before main is over and every step
\* brings it nearer to the end; and a run that returns without error has
\* reported.
C13_TimeoutTerminates ==
    /\ [](C13_Bounded /\ C13_NeverStuck /\ C13_Reports)
    /\ [][C13_CallsBounded /\ Progresses]_vars

\* The same as a liveness property of the fair specification.
C13_Eventually == (timeout > 0) ~> Terminated

\* A server of each run never replied: both receives ended at their
\* deadlines, both runs reported and main returned.
C13_Witness ==
    /\ timeout > 0 /\ pc = "exit"
    /\ now >= 2 * timeout
    /\ LogEntries("udp", {"Error reading from conn"}) # {}
    /\ LogEntries("tcp", {"Error reading from conn"}) # {}
    /\ Batches("udp") # {} /\ Batches("tcp") # {}

(***************************************************************************)
(* C14: record well-formedness                                             *)
(***************************************************************************)
\* queriedEndpoint is set; mappedAddress set implies resolvedAddress set;
\* roundTripDuration is set exactly when mappedAddress is.
WellFormed(r) ==
    /\ r.STUNServerURL # ""
    /\ (r.BindResponseAddr # "" => r.STUNServerAddr # "")
    /\ (r.TimeToBindResponse > 0 <=> r.BindResponseAddr # "")

\* The record of url in rs stops after the resolution: queriedEndpoint and
\* resolvedAddress set, mappedAddress and roundTripDuration unset.
StoppedAfterResolve(rs, url) ==
    \E i \in 1..Len(rs) :
       /\ rs[i].STUNServerURL = url
       /\ rs[i].STUNServerAddr # ""
       /\ rs[i].BindResponseAddr = ""
       /\ rs[i].TimeToBindResponse = 0

\* C14 as stated: at every point of a run and in every reported batch, every
\* outcome record is well-formed; and a UDP server whose read failed (timed
\* out) has a record with queriedEndpoint and resolvedAddress set and
\* mappedAddress unset, during the run and in the batch.
C14_RecordsWellFormed ==
    /\ \A i \in 1..Len(stunResponses) : WellFormed(stunResponses[i])
    /\ \A k \in 1..Len(sink) : \A i \in 1..Len(sink[k].batch) :
          WellFormed(sink[k].batch[i])
    /\ \A j \in LogEntries("udp", {"Error reading from conn"}) :
          /\ pc \in UDPPositions =>
                StoppedAfterResolve(stunResponses, log[j].stun_server_url)
          /\ \A k \in Batches("udp") :
                StoppedAfterResolve(sink[k].batch, log[j].stun_server_url)

\* The thread of control stands between the two assignments that complete
\* the current record.
BetweenAssignments == pc \in {"udp_duration", "tcp_duration"}

\* A record between the two assignments: mappedAddress is assigned,
\* roundTripDuration not yet.
HalfComplete(r) ==
    /\ r.STUNServerURL # ""
    /\ r.STUNServerAddr # ""
    /\ r.BindResponseAddr # ""
    /\ r.TimeToBindResponse = 0

\* C14, amended: at every point of a run every outcome record is
\* well-formed, except the current record between the two assignments that
\* complete it, which has queriedEndpoint, resolvedAddress and mappedAddress
\* set and roundTripDuration not yet; in every reported batch every record is
\* well-formed; and a UDP server whose read failed (timed out) has a record
\* with queriedEndpoint and resolvedAddress set and mappedAddress unset,
\* during the run and in the batch.
C14_WellFormedOutsideAssignments ==
    /\ \A i \in 1..Len(stunResponses) :
          IF BetweenAssignments /\ i = Len(stunResponses)
          THEN HalfComplete(stunResponses[i])
          ELSE WellFormed(stunResponses[i])
    /\ \A k \in 1..Len(sink) : \A i \in 1..Len(sink[k].batch) :
          WellFormed(sink[k].batch[i])
    /\ \A j \in LogEntries("udp", {"Error reading from conn"}) :
          /\ pc \in UDPPositions =>
                StoppedAfterResolve(stunResponses, log[j].stun_server_url)
          /\ \A k \in Batches("udp") :
                StoppedAfterResolve(sink[k].batch, log[j].stun_server_url)

\* A reported UDP batch of two: the first server completed its exchange,
\* the read for the second timed out.
C14_Witness ==
    \E k \in Batches("udp") : \E j \in LogEntries("udp", {"Error reading from conn"}) :
       /\ Len(sink[k].batch) = 2
       /\ sink[k].batch[1].BindResponseAddr # ""
       /\ sink[k].batch[1].TimeToBindResponse > 0
       /\ log[j].stun_server_url = sink[k].batch[2].STUNServerURL
       /\ sink[k].batch[2].STUNServerAddr # ""
       /\ sink[k].batch[2].BindResponseAddr = ""

(***************************************************************************)
(* C15: one request per run                                                *)
(***************************************************************************)
\* The positions of the two loops, from the range clause to the last step of
\* an iteration.
LoopPositions ==
    (UDPPositions \ {"udp_listen", "udp_setdeadline", "udp_build", "udp_log"})
    \cup (TCPPositions \ {"tcp_build", "tcp_log"})

\* The entries of sent of one run.
SentBy(t) == {m \in 1..Len(sent) : sent[m].transport = t}

\* a is the beginning of b.
IsPrefix(a, b) == Len(a) <= Len(b) /\ a = SubSeq(b, 1, Len(a))

\* In a loop the serialized request is the serialization of the request
\* built before it, the bytes sent so far in this run are its bytes, and
\* whatever one run has sent to its servers are the same bytes.
C15_SameBytes ==
    /\ pc \in LoopPositions =>
          /\ bindRequest # NoRequest
          /\ bindRequestRaw = MarshalBinary(bindRequest)
          /\ \A m \in SentBy(Running) : IsPrefix(sent[m].raw, bindRequestRaw)
    /\ \A t \in {"udp", "tcp"} : \A m, n \in SentBy(t) :
          IsPrefix(sent[m].raw, sent[n].raw) \/ IsPrefix(sent[n].raw, sent[m].raw)

\* No step taken inside a loop changes the request, its serialization or,
\* with it, the transaction ID the responses are compared against.
RequestFrozen ==
    pc \in LoopPositions =>
       /\ bindRequest' = bindRequest
       /\ bindRequestRaw' = bindRequestRaw

\* C15: within one run the binding request is built and serialized once,
\* before the loop; the same bytes, with the same transaction ID, are sent
\* to every server of the run, and nothing in the loop changes the request
\* or the transaction ID.
C15_OneRequestPerRun == [](C15_SameBytes) /\ [][RequestFrozen]_vars

\* The UDP run has sent its request, whole, to two servers.
C15_Witness ==
    \E m, n \in SentBy("udp") :
       /\ sent[m].to # sent[n].to
       /\ sent[m].raw = sent[n].raw
       /\ Len(sent[m].raw) = 3
       /\ sent[m].raw[3] \in TxIDs

(***************************************************************************)
(* C16: send failure and short write                                       *)
(***************************************************************************)
\* What the two failures of the send are logged as.
WriteFailures == {"Error writing to conn", "Only wrote %d/%d of bind request"}

\* The positions of an iteration at which its receive is running or over.
ReceivePositions ==
    {"udp_read", "udp_read_blocked", "udp_decode", "udp_switch", "udp_getfrom",
     "udp_txid", "udp_addr", "udp_duration", "tcp_read", "tcp_read_blocked",
     "tcp_decode", "tcp_switch", "tcp_getfrom", "tcp_txid", "tcp_addr",
     "tcp_duration"}

\* The iteration that just ended logged a failure of its send.
SendFailed ==
    /\ IterationEnded /\ idx >= 1 /\ Len(log) > 0
    /\ log[Len(log)].logger = Running
    /\ log[Len(log)].stun_server_url = ListOf(Running)[idx]
    /\ log[Len(log)].msg \in WriteFailures

\* An iteration receives only after it has sent the whole request; an
\* iteration whose send failed has received nothing and leaves its record
\* stopped after the resolution, in the run and in the reported batch.
C16_NoReceive ==
    /\ pc \in ReceivePositions =>
          /\ Len(sent) > 0
          /\ sent[Len(sent)].transport = Running
          /\ sent[Len(sent)].iter = idx
          /\ sent[Len(sent)].raw = bindRequestRaw
    /\ SendFailed =>
          /\ rawResponse = NoBytes /\ response = NoMessage
          /\ Current.STUNServerURL = ListOf(Running)[idx]
          /\ StoppedAfterResolve(<<Current>>, ListOf(Running)[idx])
    /\ \A t \in {"udp", "tcp"} : \A j \in LogEntries(t, WriteFailures) :
          \A k \in Batches(t) :
             StoppedAfterResolve(sink[k].batch, log[j].stun_server_url)

\* The step that sends either reports a failure and ends the iteration, the
\* loop standing before the next server, or has sent the whole request and
\* goes on to the receive.
C16_SendStep ==
    pc \in {"udp_write", "tcp_write"} =>
       \/ /\ pc' \in {"udp_range", "tcp_range"}
          /\ idx' = idx
          /\ Len(log') = Len(log) + 1
          /\ log'[Len(log')].msg \in WriteFailures
          /\ stunResponses' = stunResponses
       \/ /\ pc' \in {"udp_read", "tcp_read"}
          /\ log' = log
          /\ Len(sent') = Len(sent) + 1
          /\ sent'[Len(sent')].raw = bindRequestRaw

\* C16: in both runs, when the send for server i returns an error or writes
\* a byte count different from the request length, no receive is performed
\* for server i, its record keeps queriedEndpoint and resolvedAddress set
\* with mappedAddress and roundTripDuration unset, and the loop advances to
\* server i+1.
C16_SendFailureEndsIteration == [](C16_NoReceive) /\ [][C16_SendStep]_vars

\* A reported TCP batch of two: the write for the first server was short,
\* the second server completed its exchange.
C16_Witness ==
    \E k \in Batches("tcp") :
       \E j \in LogEntries("tcp", {"Only wrote %d/%d of bind request"}) :
          /\ Len(sink[k].batch) = 2
          /\ log[j].stun_server_url = sink[k].batch[1].STUNServerURL
          /\ sink[k].batch[1].STUNServerAddr # ""
          /\ sink[k].batch[1].BindResponseAddr = ""
          /\ sink[k].batch[2].BindResponseAddr # ""

(***************************************************************************)
(* C17: attribution of UDP responses                                       *)
(***************************************************************************)
\* The UDP iteration that just ended recorded a mapped address.
UDPRecorded ==
    /\ pc = "udp_range" /\ idx >= 1
    /\ Current.BindResponseAddr # ""

\* C17: in a UDP run, whenever mappedAddress is recorded for server i, the
\* datagram it was extracted from was sent by server i; a datagram from
\* another server of the list, from an earlier iteration's server or from an
\* unrelated sender is never recorded as server i's mapped address.
C17_ResponseFromQueriedServer ==
    UDPRecorded =>
       /\ Current.STUNServerURL = stunServerURLsToTestUDP[idx]
       /\ response.src = stunServerURLsToTestUDP[idx]
       /\ Current.BindResponseAddr = response.xor
====
